---- MODULE Spec2Model ----
(***************************************************************************)
(* Model of sjtu::list<T> (src/list.hpp): a doubly-linked list bounded by  *)
(* two sentinel nodes, with iterators that are (node, container) pairs.    *)
(* The heap is modelled by three functions over node addresses (prev,      *)
(* next, data) and the set of allocated value nodes; up to two containers  *)
(* live side by side so that merge and copy can be exercised.              *)
(*                                                                         *)
(* list_size is a size_t: the model stores the signed representative of    *)
(* its value modulo 2^64, so -1 stands for 2^64-1 (a counter decremented   *)
(* below zero).  Tests on it are written on that representative.           *)
(*                                                                         *)
(* A step that dereferences a null link is undefined behaviour; the model  *)
(* records it in the flag fault and explores nothing after it.             *)
(***************************************************************************)
EXTENDS Integers, Sequences, FiniteSets, TLC

\* ---------------------------------------------------------------- bounds
MaxNodes == 3      \* value nodes that can be allocated at the same time
MaxVal   == 2      \* element values are 1..MaxVal
MaxDrift == 1      \* explored distance between list_size and the chain length

\* ------------------------------------------------------------- addresses
NULL == 0
Lists == {1, 2}
Vals == 1..MaxVal
Sentinels == 1..4
ValueNodes == 5..(4 + MaxNodes)
Nodes == Sentinels \cup ValueNodes
SentA(c) == 2 * c - 1      \* first sentinel allocated by the constructor
SentB(c) == 2 * c          \* second sentinel allocated by the constructor
Other(c) == 3 - c

VARIABLES prev, next, data, alloc, head, tail, list_size, live, iter, fault

vars == <<prev, next, data, alloc, head, tail, list_size, live, iter, fault>>

\* the default-constructed iterator
Unset == [current |-> NULL, container |-> NULL]
It(n, c) == [current |-> n, container |-> c]

\* the heap and the containers as one value, threaded through the operations
Cur ==
  [prev |-> prev, next |-> next, data |-> data, alloc |-> alloc,
   head |-> head, tail |-> tail, size |-> list_size, live |-> live,
   fault |-> fault, exc |-> "none", ret |-> Unset, tmp |-> Unset, val |-> 0]

Fault(h) == [h EXCEPT !.fault = TRUE]
Throw(h, e) == [h EXCEPT !.exc = e]
Bad(h) == h.fault \/ h.exc # "none"

\* ------------------------------------------------------------ allocation
FreeNodes(h) == ValueNodes \ h.alloc
NewNodeAddr(h) == CHOOSE n \in FreeNodes(h) : \A m \in FreeNodes(h) : n <= m

\* new node(value)
new_node(h, value) ==
  LET n == NewNodeAddr(h) IN
  [h EXCEPT !.alloc = @ \cup {n}, !.data[n] = value, !.prev[n] = NULL, !.next[n] = NULL]

\* delete p
delete_node(h, p) ==
  [h EXCEPT !.alloc = @ \ {p}, !.data[p] = 0, !.prev[p] = NULL, !.next[p] = NULL]

\* --------------------------------------------------- splicing primitives
\* list::insert(node *pos, node *cur) without pos->prev = cur (a forgotten
\* back link)
insert_node_no_back_link(h, c, pos, cur) ==
  IF pos = NULL THEN Fault(h)
  ELSE LET h1 == [h EXCEPT !.prev[cur] = h.prev[pos], !.next[cur] = pos] IN
       IF h1.prev[pos] = NULL THEN Fault(h1)
       ELSE [h1 EXCEPT !.next[h1.prev[pos]] = cur, !.size[c] = @ + 1]

\* list::insert(node *pos, node *cur)
insert_node(h, c, pos, cur) ==
  IF pos = NULL THEN Fault(h)
  ELSE LET h1 == [h EXCEPT !.prev[cur] = h.prev[pos], !.next[cur] = pos] IN
       IF h1.prev[pos] = NULL THEN Fault(h1)
       ELSE [h1 EXCEPT !.next[h1.prev[pos]] = cur, !.prev[pos] = cur,
                       !.size[c] = @ + 1]

\* list::erase(node *pos) without the list_size-- (a forgotten counter update)
erase_node_keeps_size(h, c, pos) ==
  IF pos = NULL THEN Fault(h)
  ELSE IF h.prev[pos] = NULL THEN Fault(h)
  ELSE LET h1 == [h EXCEPT !.next[h.prev[pos]] = h.next[pos]] IN
       IF h1.next[pos] = NULL THEN Fault(h1)
       ELSE [h1 EXCEPT !.prev[h1.next[pos]] = h1.prev[pos]]

\* list::erase(node *pos)
erase_node(h, c, pos) ==
  IF pos = NULL THEN Fault(h)
  ELSE IF h.prev[pos] = NULL THEN Fault(h)
  ELSE LET h1 == [h EXCEPT !.next[h.prev[pos]] = h.next[pos]] IN
       IF h1.next[pos] = NULL THEN Fault(h1)
       ELSE [h1 EXCEPT !.prev[h1.next[pos]] = h1.prev[pos], !.size[c] = @ - 1]

\* ------------------------------------------------------ container queries
empty(h, c) == h.size[c] = 0
size_le_1(h, c) == h.size[c] = 0 \/ h.size[c] = 1
begin(h, c) == It(h.next[h.head[c]], c)
end(h, c) == It(h.tail[c], c)

\* list::front; the value of a node that is not an allocated value node was
\* never constructed, and reading it is undefined behaviour
front(h, c) ==
  IF empty(h, c) THEN Throw(h, "container_is_empty")
  ELSE LET n == h.next[h.head[c]] IN
       IF n \notin h.alloc THEN Fault(h) ELSE [h EXCEPT !.val = h.data[n]]

\* list::back
back(h, c) ==
  IF empty(h, c) THEN Throw(h, "container_is_empty")
  ELSE LET n == h.prev[h.tail[c]] IN
       IF n \notin h.alloc THEN Fault(h) ELSE [h EXCEPT !.val = h.data[n]]

\* ----------------------------------------------------- insert and erase
\* list::insert(iterator pos, const T &value) linking the node after pos
insert_after_pos(h, c, pos, value) ==
  IF pos.container # c THEN Throw(h, "invalid_iterator")
  ELSE LET new == NewNodeAddr(h)
           at == IF pos.current = h.tail[c] THEN pos.current ELSE h.next[pos.current]
           h1 == insert_node(new_node(h, value), c, at, new)
       IN IF h1.fault THEN h1 ELSE [h1 EXCEPT !.ret = It(new, c)]

\* list::insert(iterator pos, const T &value) allocating the node before the
\* test of pos
insert_allocates_first(h, c, pos, value) ==
  LET new == NewNodeAddr(h)
      h0 == new_node(h, value)
  IN IF pos.container # c THEN Throw(h0, "invalid_iterator")
     ELSE LET h1 == insert_node(h0, c, pos.current, new)
          IN IF h1.fault THEN h1 ELSE [h1 EXCEPT !.ret = It(new, c)]

\* list::insert(iterator pos, const T &value)
insert(h, c, pos, value) ==
  IF pos.container # c THEN Throw(h, "invalid_iterator")
  ELSE LET new == NewNodeAddr(h)
           h1 == insert_node(new_node(h, value), c, pos.current, new)
       IN IF h1.fault THEN h1 ELSE [h1 EXCEPT !.ret = It(new, c)]

\* list::erase(iterator pos) testing the iterator before the size
erase_tests_pos_first(h, c, pos) ==
  IF pos.container # c \/ pos.current = end(h, c).current
  THEN Throw(h, "invalid_iterator")
  ELSE IF empty(h, c) THEN Throw(h, "container_is_empty")
  ELSE LET pos_node == pos.current IN
       IF pos_node = NULL THEN Fault(h)
       ELSE LET next_node == h.next[pos_node]
                h1 == erase_node(h, c, pos_node)
            IN IF h1.fault THEN h1
               ELSE [delete_node(h1, pos_node) EXCEPT !.ret = It(next_node, c)]

\* list::erase(iterator pos) returning end() instead of the following node
erase_returns_end(h, c, pos) ==
  IF empty(h, c) THEN Throw(h, "container_is_empty")
  ELSE IF pos.container # c \/ pos.current = end(h, c).current
       THEN Throw(h, "invalid_iterator")
  ELSE LET pos_node == pos.current IN
       IF pos_node = NULL THEN Fault(h)
       ELSE LET h1 == erase_node(h, c, pos_node)
            IN IF h1.fault THEN h1
               ELSE [delete_node(h1, pos_node) EXCEPT !.ret = end(h1, c)]

\* list::erase(iterator pos)
erase(h, c, pos) ==
  IF empty(h, c) THEN Throw(h, "container_is_empty")
  ELSE IF pos.container # c \/ pos.current = end(h, c).current
       THEN Throw(h, "invalid_iterator")
  ELSE LET pos_node == pos.current IN
       IF pos_node = NULL THEN Fault(h)
       ELSE LET next_node == h.next[pos_node]
                h1 == erase_node(h, c, pos_node)
            IN IF h1.fault THEN h1
               ELSE [delete_node(h1, pos_node) EXCEPT !.ret = It(next_node, c)]

\* list::push_back
push_back(h, c, value) ==
  LET new == NewNodeAddr(h) IN insert_node(new_node(h, value), c, h.tail[c], new)

\* list::push_front
push_front(h, c, value) ==
  LET new == NewNodeAddr(h) IN
  insert_node(new_node(h, value), c, h.next[h.head[c]], new)

\* list::pop_back
pop_back(h, c) ==
  IF empty(h, c) THEN Throw(h, "container_is_empty")
  ELSE LET last_node == h.prev[h.tail[c]]
           h1 == erase_node(h, c, last_node)
       IN IF h1.fault THEN h1 ELSE delete_node(h1, last_node)

\* list::pop_front
pop_front(h, c) ==
  IF empty(h, c) THEN Throw(h, "container_is_empty")
  ELSE LET first_node == h.next[h.head[c]]
           h1 == erase_node(h, c, first_node)
       IN IF h1.fault THEN h1 ELSE delete_node(h1, first_node)

\* list::clear
RECURSIVE clear(_, _)
clear(h, c) ==
  IF h.fault \/ empty(h, c) THEN h ELSE clear(pop_front(h, c), c)

\* ------------------------------------------------------------ traversal
\* the nodes met by an iterator walking from p until it equals stop
RECURSIVE Walk(_, _, _)
Walk(h, p, stop) ==
  IF p = stop \/ p = NULL THEN <<>> ELSE <<p>> \o Walk(h, h.next[p], stop)

ChainOf(h, c) == Walk(h, begin(h, c).current, end(h, c).current)
ValuesOf(h, c) == [k \in 1..Len(ChainOf(h, c)) |-> h.data[ChainOf(h, c)[k]]]

\* --------------------------------------------------------- copy and sort
\* for (it = other.cbegin(); it != other.cend(); ++it) push_back(*it);
RECURSIVE copy_loop(_, _, _, _)
copy_loop(h, c, o, it) ==
  IF h.fault \/ it = h.tail[o] THEN h
  ELSE copy_loop(push_back(h, c, h.data[it]), c, o, h.next[it])

\* list::operator=
assign(h, c, o) ==
  IF c = o THEN h
  ELSE LET h1 == clear(h, c) IN copy_loop(h1, c, o, h1.next[h1.head[o]])

\* sjtu::sort(arr, arr + n, cmp) with cmp(a, b) == a < b: the ascending
\* arrangement of the buffer
RECURSIVE SortedInsert(_, _)
SortedInsert(s, x) ==
  IF s = <<>> THEN <<x>>
  ELSE IF x < Head(s) THEN <<x>> \o s
  ELSE <<Head(s)>> \o SortedInsert(Tail(s), x)

RECURSIVE SortedSeq(_)
SortedSeq(s) ==
  IF s = <<>> THEN <<>> ELSE SortedInsert(SortedSeq(Tail(s)), Head(s))

\* the second loop of list::sort: *it = arr[i] along the chain
RECURSIVE write_back(_, _, _)
write_back(h, nodes, arr) ==
  IF nodes = <<>> THEN h
  ELSE write_back([h EXCEPT !.data[Head(nodes)] = Head(arr)], Tail(nodes), Tail(arr))

\* list::sort.  The buffer has size() slots and the loops run over the chain:
\* a negative representative is an allocation of about 2^64 elements, which
\* fails; a buffer shorter or longer than the chain is overrun or read
\* uninitialised.
sort(h, c) ==
  IF size_le_1(h, c) THEN h
  ELSE IF h.size[c] < 0 THEN Throw(h, "bad_alloc")
  ELSE IF h.size[c] # Len(ChainOf(h, c)) THEN Fault(h)
  ELSE write_back(h, ChainOf(h, c), SortedSeq(ValuesOf(h, c)))

\* ----------------------------------------------------------------- merge
\* the second loop of list::merge
RECURSIVE merge_drain(_, _, _, _)
merge_drain(h, c, o, other_ptr) ==
  IF h.fault \/ other_ptr = h.tail[o] THEN h
  ELSE LET next_other == h.next[other_ptr]
           h1 == erase_node(h, o, other_ptr)
           h2 == IF h1.fault THEN h1 ELSE insert_node(h1, c, h1.tail[c], other_ptr)
       IN merge_drain(h2, c, o, next_other)

\* the first loop of list::merge moving other's node also when the two values
\* are equal (<= written for <)
RECURSIVE merge_walk_takes_ties(_, _, _, _, _)
merge_walk_takes_ties(h, c, o, this_ptr, other_ptr) ==
  IF h.fault THEN h
  ELSE IF this_ptr # h.tail[c] /\ other_ptr # h.tail[o]
  THEN IF h.data[other_ptr] <= h.data[this_ptr]
       THEN LET next_other == h.next[other_ptr]
                h1 == erase_node(h, o, other_ptr)
                h2 == IF h1.fault THEN h1 ELSE insert_node(h1, c, this_ptr, other_ptr)
            IN merge_walk_takes_ties(h2, c, o, this_ptr, next_other)
       ELSE merge_walk_takes_ties(h, c, o, h.next[this_ptr], other_ptr)
  ELSE merge_drain(h, c, o, other_ptr)

\* the first loop of list::merge
RECURSIVE merge_walk(_, _, _, _, _)
merge_walk(h, c, o, this_ptr, other_ptr) ==
  IF h.fault THEN h
  ELSE IF this_ptr # h.tail[c] /\ other_ptr # h.tail[o]
  THEN IF h.data[other_ptr] < h.data[this_ptr]
       THEN LET next_other == h.next[other_ptr]
                h1 == erase_node(h, o, other_ptr)
                h2 == IF h1.fault THEN h1 ELSE insert_node(h1, c, this_ptr, other_ptr)
            IN merge_walk(h2, c, o, this_ptr, next_other)
       ELSE merge_walk(h, c, o, h.next[this_ptr], other_ptr)
  ELSE merge_drain(h, c, o, other_ptr)

\* list::merge
merge(h, c, o) ==
  IF c = o THEN h
  ELSE merge_walk(h, c, o, h.next[h.head[c]], h.next[h.head[o]])

\* --------------------------------------------------------------- reverse
\* the loop of list::reverse
RECURSIVE reverse_walk(_, _)
reverse_walk(h, current) ==
  IF current = NULL THEN h
  ELSE LET temp == h.next[current] IN
       reverse_walk([h EXCEPT !.next[current] = h.prev[current],
                              !.prev[current] = temp], temp)

\* list::reverse exchanging the values of the nodes instead of their links
reverse_swaps_values(h, c) ==
  IF size_le_1(h, c) THEN h
  ELSE LET q == ValuesOf(h, c) IN
       write_back(h, ChainOf(h, c), [k \in 1..Len(q) |-> q[Len(q) + 1 - k]])

\* list::reverse leaving head and tail as they were
reverse_keeps_ends(h, c) ==
  IF size_le_1(h, c) THEN h ELSE reverse_walk(h, h.head[c])

\* list::reverse
reverse(h, c) ==
  IF size_le_1(h, c) THEN h
  ELSE LET h1 == reverse_walk(h, h.head[c]) IN
       [h1 EXCEPT !.head[c] = h.tail[c], !.tail[c] = h.head[c]]

\* ---------------------------------------------------------------- unique
\* the loop of list::unique; it and next_it are iterators of this container
RECURSIVE unique_loop(_, _, _, _)
unique_loop(h, c, it, next_it) ==
  IF next_it = end(h, c).current THEN h
  ELSE IF h.data[it] = h.data[next_it]
  THEN LET h1 == erase(h, c, It(next_it, c)) IN
       IF Bad(h1) THEN h1 ELSE unique_loop(h1, c, it, h1.ret.current)
  ELSE unique_loop(h, c, next_it, h.next[next_it])

\* list::unique
unique(h, c) ==
  IF size_le_1(h, c) THEN h
  ELSE LET it == begin(h, c).current IN
       IF it = h.tail[c] THEN Throw(h, "invalid_iterator")
       ELSE unique_loop(h, c, it, h.next[it])

\* ------------------------------------------------------------- lifecycle
\* list::list()
construct(h, c) ==
  [h EXCEPT !.head[c] = SentA(c), !.tail[c] = SentB(c),
            !.prev[SentA(c)] = NULL, !.next[SentA(c)] = SentB(c),
            !.prev[SentB(c)] = SentA(c), !.next[SentB(c)] = NULL,
            !.size[c] = 0, !.live[c] = TRUE]

\* list::list(const list &other)
copy_construct(h, c, o) ==
  LET h1 == construct(h, c) IN copy_loop(h1, c, o, h1.next[h1.head[o]])

\* list::~list
destroy(h, c) ==
  LET h1 == clear(h, c) IN
  IF h1.fault THEN h1
  ELSE [h1 EXCEPT !.prev[SentA(c)] = NULL, !.next[SentA(c)] = NULL,
                  !.prev[SentB(c)] = NULL, !.next[SentB(c)] = NULL,
                  !.head[c] = NULL, !.tail[c] = NULL,
                  !.size[c] = 0, !.live[c] = FALSE]

\* ------------------------------------------------------------- iterators
\* an iterator that references a destroyed container or released memory is
\* stale; the client drops it (replaces it by a default-constructed one)
LiveNode(h, n) ==
  n \in h.alloc \/ (n \in Sentinels /\ h.live[(n + 1) \div 2])

Stale(h, x) ==
  /\ x # Unset
  /\ \/ ~h.live[x.container]
     \/ x.current # NULL /\ ~LiveNode(h, x.current)

Drop(h, x) == IF Stale(h, x) THEN Unset ELSE x

\* the test of iterator::operator++ (and const_iterator::operator++)
inc_throws(h, x) ==
  x.current = NULL \/ x.current = h.tail[x.container]
\* ... and its move
inc(h, x) == It(h.next[x.current], x.container)

\* the test of operator-- comparing with head instead of head->next
dec_throws_at_head(h, x) ==
  x.current = NULL \/ x.current = h.head[x.container]

\* the test of iterator::operator-- (and const_iterator::operator--)
dec_throws(h, x) ==
  x.current = NULL \/ x.current = h.next[h.head[x.container]]
\* ... and its move
dec(h, x) == It(h.prev[x.current], x.container)

\* iterator::operator* (and const_iterator::operator*): the test
deref_throws(h, x) ==
  x.current = NULL \/ x.current = h.head[x.container] \/ x.current = h.tail[x.container]
\* ... and the value
deref(h, x) == h.data[x.current]

\* *x and x->: the call as a whole.  A node that passes the test and is not
\* an allocated value node holds no constructed value: reading it is
\* undefined behaviour.
star(h, x) ==
  IF deref_throws(h, x) THEN Throw(h, "invalid_iterator")
  ELSE IF x.current \notin h.alloc THEN Fault(h)
  ELSE [h EXCEPT !.val = deref(h, x)]

\* ++x and x++ as a whole: ret is where x rests after the call
increment(h, x) ==
  IF inc_throws(h, x) THEN [Throw(h, "invalid_iterator") EXCEPT !.ret = x]
  ELSE [h EXCEPT !.ret = inc(h, x)]

\* --x and x-- as a whole
decrement(h, x) ==
  IF dec_throws(h, x) THEN [Throw(h, "invalid_iterator") EXCEPT !.ret = x]
  ELSE [h EXCEPT !.ret = dec(h, x)]

\* x++ as a whole: tmp is the iterator the call returns
post_increment(h, x) ==
  IF inc_throws(h, x) THEN [Throw(h, "invalid_iterator") EXCEPT !.ret = x]
  ELSE [h EXCEPT !.tmp = x, !.ret = inc(h, x)]

\* x-- as a whole
post_decrement(h, x) ==
  IF dec_throws(h, x) THEN [Throw(h, "invalid_iterator") EXCEPT !.ret = x]
  ELSE [h EXCEPT !.tmp = x, !.ret = dec(h, x)]

\* ----------------------------------------------------------------- state
Init ==
  /\ prev = [n \in Nodes |-> IF n \in {SentB(1), SentB(2)} THEN n - 1 ELSE NULL]
  /\ next = [n \in Nodes |-> IF n \in {SentA(1), SentA(2)} THEN n + 1 ELSE NULL]
  /\ data = [n \in Nodes |-> 0]
  /\ alloc = {}
  /\ head = [c \in Lists |-> SentA(c)]
  /\ tail = [c \in Lists |-> SentB(c)]
  /\ list_size = [c \in Lists |-> 0]
  /\ live = [c \in Lists |-> TRUE]
  /\ iter = Unset
  /\ fault = FALSE

Abs(x) == IF x < 0 THEN 0 - x ELSE x

InBounds(h) ==
  h.fault \/ \A c \in Lists : h.live[c] => Abs(h.size[c] - Len(ChainOf(h, c))) <= MaxDrift

\* Addresses are opaque to the program (it compares them for equality only),
\* so states are kept up to a renaming of the addresses within each kind:
\* the head sentinel of a container takes the first of its two sentinel
\* addresses, the tail sentinel the second, and the allocated value nodes are
\* numbered in the order of the chains.
RECURSIVE SetToSeq(_)
SetToSeq(S) ==
  IF S = {} THEN <<>>
  ELSE LET m == CHOOSE x \in S : \A y \in S : x <= y IN <<m>> \o SetToSeq(S \ {m})

Range(q) == {q[k] : k \in 1..Len(q)}

LiveChain(h, c) == IF h.live[c] THEN ChainOf(h, c) ELSE <<>>

SentinelOrder(h, c) ==
  IF h.live[c] THEN <<h.head[c], h.tail[c]>> ELSE <<SentA(c), SentB(c)>>

\* the old addresses in the order of their new ones
Order(h) ==
  LET linked == LiveChain(h, 1) \o LiveChain(h, 2)
  IN SentinelOrder(h, 1) \o SentinelOrder(h, 2)
       \o linked \o SetToSeq(h.alloc \ Range(linked))

\* the renaming as a function of the old address
Renaming(h) ==
  LET ord == Order(h) IN
  [n \in Nodes \cup {NULL} |->
     IF n \in Sentinels \cup h.alloc
     THEN CHOOSE k \in 1..Len(ord) : ord[k] = n ELSE n]

CanonWith(h, x, ord, ren) ==
  LET k == Len(ord)
  IN [heap |-> [h EXCEPT
        !.prev = [n \in Nodes |-> IF n <= k THEN ren[h.prev[ord[n]]] ELSE NULL],
        !.next = [n \in Nodes |-> IF n <= k THEN ren[h.next[ord[n]]] ELSE NULL],
        !.data = [n \in Nodes |-> IF n <= k THEN h.data[ord[n]] ELSE 0],
        !.alloc = {n \in ValueNodes : n <= k},
        !.head = [c \in Lists |-> ren[h.head[c]]],
        !.tail = [c \in Lists |-> ren[h.tail[c]]]],
      iter |-> It(ren[x.current], x.container)]

\* an operation that left every link as it was left the numbering as it was
SameLinks(h) ==
  /\ h.next = next /\ h.prev = prev /\ h.alloc = alloc
  /\ h.head = head /\ h.tail = tail /\ h.live = live

Canon(h, x) ==
  IF SameLinks(h) THEN [heap |-> h, iter |-> x]
  ELSE CHOOSE g \in {CanonWith(hh, x, ord, ren) :
                       hh \in {h}, ord \in {Order(h)}, ren \in {Renaming(h)}} : TRUE

\* Nothing is known of the memory after undefined behaviour: every such
\* outcome is the one state Undefined, which no operation leaves.
Undefined ==
  [heap |-> [prev |-> [n \in Nodes |-> NULL], next |-> [n \in Nodes |-> NULL],
             data |-> [n \in Nodes |-> 0], alloc |-> {},
             head |-> [c \in Lists |-> NULL], tail |-> [c \in Lists |-> NULL],
             size |-> [c \in Lists |-> 0], live |-> [c \in Lists |-> FALSE],
             fault |-> TRUE],
   iter |-> Unset]

\* the state after an operation that left the heap h and the iterator x
Commit(h, x) ==
  \E g \in {IF h.fault THEN Undefined ELSE Canon(h, Drop(h, x))} :
     /\ IF SameLinks(h) /\ h.size = list_size THEN TRUE ELSE InBounds(h)
     /\ prev' = g.heap.prev
     /\ next' = g.heap.next
     /\ data' = g.heap.data
     /\ alloc' = g.heap.alloc
     /\ head' = g.heap.head
     /\ tail' = g.heap.tail
     /\ list_size' = g.heap.size
     /\ live' = g.heap.live
     /\ fault' = g.heap.fault
     /\ iter' = g.iter

Room(k) == Cardinality(FreeNodes(Cur)) >= k
Ready(c) == ~fault /\ live[c]

\* --------------------------------------------------------------- actions
Begin(c) ==
  /\ Ready(c)
  /\ Commit(Cur, begin(Cur, c))

End(c) ==
  /\ Ready(c)
  /\ Commit(Cur, end(Cur, c))

Inc ==
  /\ ~fault
  /\ \E h \in {increment(Cur, iter)} : Commit(h, h.ret)

Dec ==
  /\ ~fault
  /\ \E h \in {decrement(Cur, iter)} : Commit(h, h.ret)

\* *iter
Star ==
  /\ ~fault
  /\ \E h \in {star(Cur, iter)} : Commit(h, iter)

Front(c) ==
  /\ Ready(c)
  /\ \E h \in {front(Cur, c)} : Commit(h, iter)

Back(c) ==
  /\ Ready(c)
  /\ \E h \in {back(Cur, c)} : Commit(h, iter)

\* iter = c.insert(iter, v) when keep, c.insert(iter, v) otherwise
Insert(c, v, keep) ==
  /\ Ready(c)
  /\ iter.container = c => Room(1)
  /\ \E h \in {insert(Cur, c, iter, v)} :
     Commit(h, IF Bad(h) \/ ~keep THEN iter ELSE h.ret)

\* iter = c.erase(iter) when keep, c.erase(iter) otherwise
Erase(c, keep) ==
  /\ Ready(c)
  /\ \E h \in {erase(Cur, c, iter)} :
     Commit(h, IF Bad(h) \/ ~keep THEN iter ELSE h.ret)

PushBack(c, v) ==
  /\ Ready(c) /\ Room(1)
  /\ \E h \in {push_back(Cur, c, v)} : Commit(h, iter)

PushFront(c, v) ==
  /\ Ready(c) /\ Room(1)
  /\ \E h \in {push_front(Cur, c, v)} : Commit(h, iter)

PopBack(c) ==
  /\ Ready(c)
  /\ \E h \in {pop_back(Cur, c)} : Commit(h, iter)

PopFront(c) ==
  /\ Ready(c)
  /\ \E h \in {pop_front(Cur, c)} : Commit(h, iter)

Clear(c) ==
  /\ Ready(c)
  /\ \E h \in {clear(Cur, c)} : Commit(h, iter)

Assign(c, o) ==
  /\ Ready(c) /\ Ready(o)
  /\ c # o => Cardinality(FreeNodes(clear(Cur, c))) >= Len(ChainOf(Cur, o))
  /\ \E h \in {assign(Cur, c, o)} : Commit(h, iter)

Sort(c) ==
  /\ Ready(c)
  /\ \E h \in {sort(Cur, c)} : Commit(h, iter)

Merge(c, o) ==
  /\ Ready(c) /\ Ready(o)
  /\ \E h \in {merge(Cur, c, o)} : Commit(h, iter)

Reverse(c) ==
  /\ Ready(c)
  /\ \E h \in {reverse(Cur, c)} : Commit(h, iter)

Unique(c) ==
  /\ Ready(c)
  /\ \E h \in {unique(Cur, c)} : Commit(h, iter)

\* a default-constructed container takes the place of a destroyed one
Construct(c) ==
  /\ ~fault /\ ~live[c]
  /\ \E h \in {construct(Cur, c)} : Commit(h, iter)

\* a copy of o takes the place of a destroyed container
CopyConstruct(c, o) ==
  /\ ~fault /\ ~live[c] /\ live[o]
  /\ Room(Len(ChainOf(Cur, o)))
  /\ \E h \in {copy_construct(Cur, c, o)} : Commit(h, iter)

\* the container goes out of scope; an iterator left on a node that the
\* destructor did not release is dropped with the container
Destroy(c) ==
  /\ Ready(c)
  /\ \E h \in {destroy(Cur, c)} :
     Commit(h, IF iter.current \in Range(ChainOf(clear(Cur, c), c)) THEN Unset ELSE iter)

Next ==
  \/ \E c \in Lists : Begin(c)
  \/ \E c \in Lists : End(c)
  \/ Inc
  \/ Dec
  \/ Star
  \/ \E c \in Lists : Front(c)
  \/ \E c \in Lists : Back(c)
  \/ \E c \in Lists, v \in Vals, keep \in BOOLEAN : Insert(c, v, keep)
  \/ \E c \in Lists, keep \in BOOLEAN : Erase(c, keep)
  \/ \E c \in Lists, v \in Vals : PushBack(c, v)
  \/ \E c \in Lists, v \in Vals : PushFront(c, v)
  \/ \E c \in Lists : PopBack(c)
  \/ \E c \in Lists : PopFront(c)
  \/ \E c \in Lists : Clear(c)
  \/ \E c \in Lists, o \in Lists : Assign(c, o)
  \/ \E c \in Lists : Sort(c)
  \/ \E c \in Lists, o \in Lists : Merge(c, o)
  \/ \E c \in Lists : Reverse(c)
  \/ \E c \in Lists : Unique(c)

Spec == Init /\ [][Next]_vars

\* the same with containers that go out of scope and are constructed again
NextLife ==
  \/ Next
  \/ \E c \in Lists : Construct(c)
  \/ \E c \in Lists, o \in Lists : CopyConstruct(c, o)
  \/ \E c \in Lists : Destroy(c)

SpecLife == Init /\ [][NextLife]_vars

\* containers used only through push, pop, insert, erase and an iterator
NextBasic ==
  \/ \E c \in Lists : Begin(c)
  \/ \E c \in Lists : End(c)
  \/ Inc
  \/ Dec
  \/ \E c \in Lists, v \in Vals, keep \in BOOLEAN : Insert(c, v, keep)
  \/ \E c \in Lists, keep \in BOOLEAN : Erase(c, keep)
  \/ \E c \in Lists, v \in Vals : PushBack(c, v)
  \/ \E c \in Lists, v \in Vals : PushFront(c, v)
  \/ \E c \in Lists : PopBack(c)
  \/ \E c \in Lists : PopFront(c)

SpecBasic == Init /\ [][NextBasic]_vars

\* ---------------------------------------------------------- observations
Chain(c) == ChainOf(Cur, c)
Values(c) == ValuesOf(Cur, c)
LiveLists == {c \in Lists : live[c]}

\* the number of elements visited by for (x = begin(); x != end(); ++x),
\* or -1 when the increment throws on the way
RECURSIVE IterSteps(_, _, _)
IterSteps(h, x, c) ==
  IF x.current = end(h, c).current THEN 0
  ELSE IF inc_throws(h, x) THEN 0 - 1
  ELSE LET rest == IterSteps(h, inc(h, x), c) IN
       IF rest < 0 THEN rest ELSE rest + 1

IterCount(h, c) == IterSteps(h, begin(h, c), c)

\* the nodes met from p by following next, at most fuel of them
RECURSIVE Path(_, _, _)
Path(h, p, fuel) ==
  IF p = NULL \/ fuel = 0 THEN <<>> ELSE <<p>> \o Path(h, h.next[p], fuel - 1)

FullPath(h, c) == Path(h, h.head[c], Cardinality(Nodes) + 1)

\* head.prev is null, tail.next is null, tail ends the path from head, the
\* inner nodes are linked both ways, and a path without value nodes is
\* head <-> tail
ConsistentPath(h, c) ==
  LET p == FullPath(h, c) IN
  /\ h.prev[h.head[c]] = NULL
  /\ h.next[h.tail[c]] = NULL
  /\ Len(p) >= 2 /\ Len(p) <= Cardinality(Nodes)
  /\ p[1] = h.head[c] /\ p[Len(p)] = h.tail[c]
  /\ \A k \in 2..(Len(p) - 1) :
        /\ h.next[p[k]] # NULL /\ h.prev[h.next[p[k]]] = p[k]
        /\ h.prev[p[k]] # NULL /\ h.next[h.prev[p[k]]] = p[k]
  /\ Len(p) = 2 => h.next[h.head[c]] = h.tail[c] /\ h.prev[h.tail[c]] = h.head[c]

\* ---------------------------------------------------------------- claims
\* C1: with containers driven only by push_back, push_front, pop_back,
\* pop_front, insert and erase, size() equals the number of elements an
\* iterator visits between begin() and end() after every operation
C1_SizeIsIterCount ==
  ~fault => \A c \in Lists : list_size[c] = IterCount(Cur, c)

C1_Witness ==
  /\ ~fault
  /\ list_size[1] = 2 /\ IterCount(Cur, 1) = 2
  /\ iter.container = 1 /\ iter.current = tail[1]
  /\ Values(1) = <<2, 1>>
  /\ list_size[2] = 1

\* C2: in every reachable state the size counter of each container equals
\* the number of non-sentinel nodes between its head and its tail
C2_SizeEqualsCount ==
  ~fault => \A c \in LiveLists : list_size[c] = Len(Chain(c))

\* C3: after every operation that returns normally each container's chain is
\* a consistent doubly-linked path from head to tail; so are the chains after
\* a container is copy-constructed in the place of one that went out of scope
C3_ConsistentPaths ==
  ~fault =>
    /\ \A c \in LiveLists : ConsistentPath(Cur, c)
    /\ \A b \in LiveLists : \A a \in LiveLists \ {b} :
         LET h0 == destroy(Cur, b)
             h == copy_construct(h0, b, a)
         IN (~Bad(h0) /\ Cardinality(FreeNodes(h0)) >= Len(ChainOf(h0, a)) /\ ~Bad(h))
              => ConsistentPath(h, b) /\ ConsistentPath(h, a)

C3_Witness ==
  /\ ~fault
  /\ \E c \in LiveLists :
       /\ Len(Chain(c)) = 3 /\ list_size[c] # 3
       /\ LET h == reverse(Cur, c) IN
          ~Bad(h) /\ h.head[c] = tail[c] /\ ConsistentPath(h, c)

\* ---------------------------------------------------- sequence helpers
IndexOf(q, x) == CHOOSE k \in 1..Len(q) : q[k] = x
RemoveAt(q, k) == SubSeq(q, 1, k - 1) \o SubSeq(q, k + 1, Len(q))
InsertAt(q, k, x) == SubSeq(q, 1, k - 1) \o <<x>> \o SubSeq(q, k, Len(q))

\* iter is an iterator of container c resting on one of its value nodes
OnValueNode(c) == iter.container = c /\ iter.current \in Range(Chain(c))
\* ... or on its end()
OnValueNodeOrEnd(c) ==
  iter.container = c /\ iter.current \in Range(Chain(c)) \cup {tail[c]}

\* C4: on a non-empty container, erase(pos) with pos on a value node removes
\* exactly that element, keeps the others in order, and returns the iterator
\* that was the successor of pos (end() when pos was the last element)
C4_EraseReturnsSuccessor ==
  \A c \in LiveLists :
    (~fault /\ ~empty(Cur, c) /\ OnValueNode(c)) =>
      LET h == erase(Cur, c, iter)
          k == IndexOf(Chain(c), iter.current)
      IN /\ ~Bad(h)
         /\ ChainOf(h, c) = RemoveAt(Chain(c), k)
         /\ ValuesOf(h, c) = RemoveAt(Values(c), k)
         /\ h.ret = inc(Cur, iter)
         /\ h.ret = IF k = Len(Chain(c)) THEN end(h, c) ELSE It(Chain(c)[k + 1], c)
         /\ h.alloc = alloc \ {iter.current}

C4_Witness ==
  \E c \in LiveLists :
    /\ ~fault /\ Len(Chain(c)) = 3 /\ Values(c) = <<1, 2, 1>>
    /\ iter = It(Chain(c)[2], c)
    /\ ValuesOf(erase(Cur, c, iter), c) = <<1, 1>>
    /\ erase(Cur, c, iter).ret = It(Chain(c)[3], c)

\* C5: insert(pos, v) with pos on a value node or on end() puts one new
\* element holding v immediately before pos, keeps the others in order, adds
\* one to size and returns an iterator to the new element, whose successor
\* is pos
C5_InsertBeforePos ==
  \A c \in LiveLists : \A v \in Vals :
    (~fault /\ Room(1) /\ OnValueNodeOrEnd(c)) =>
      LET h == insert(Cur, c, iter, v)
          k == IF iter.current = tail[c] THEN Len(Chain(c)) + 1
               ELSE IndexOf(Chain(c), iter.current)
      IN /\ ~Bad(h)
         /\ h.ret.container = c /\ h.ret.current \notin alloc
         /\ h.alloc = alloc \cup {h.ret.current}
         /\ ChainOf(h, c) = InsertAt(Chain(c), k, h.ret.current)
         /\ ValuesOf(h, c) = InsertAt(Values(c), k, v)
         /\ h.size[c] = list_size[c] + 1
         /\ ~deref_throws(h, h.ret) /\ deref(h, h.ret) = v
         /\ ~inc_throws(h, h.ret) /\ inc(h, h.ret) = iter

C5_Witness ==
  \E c \in LiveLists :
    /\ ~fault /\ Room(1) /\ Values(c) = <<1, 1>>
    /\ iter = It(Chain(c)[2], c)
    /\ ValuesOf(insert(Cur, c, iter, 2), c) = <<1, 2, 1>>

\* the effect of an operation on the containers, the returned iterator aside
Effect(h) == [h EXCEPT !.ret = Unset]

\* c.erase(--c.end()): the decrement may throw before erase is called
erase_last(h, c) ==
  IF dec_throws(h, end(h, c)) THEN Throw(h, "invalid_iterator")
  ELSE erase(h, c, dec(h, end(h, c)))

\* C6: push_back(v) acts as insert(end(), v), push_front(v) as
\* insert(begin(), v), pop_front() as erase(begin()), pop_back() as erase of
\* the iterator to the last element, wherever the operation is allowed; the
\* pop variants throw container_is_empty when size is 0
C6_WrappersMatch ==
  \A c \in LiveLists :
    ~fault =>
      /\ Room(1) => \A v \in Vals :
           /\ Effect(push_back(Cur, c, v)) = Effect(insert(Cur, c, end(Cur, c), v))
           /\ Effect(push_front(Cur, c, v)) = Effect(insert(Cur, c, begin(Cur, c), v))
      /\ ~empty(Cur, c) =>
           /\ Effect(pop_front(Cur, c)) = Effect(erase(Cur, c, begin(Cur, c)))
           /\ Effect(pop_back(Cur, c)) = Effect(erase_last(Cur, c))
      /\ empty(Cur, c) =>
           /\ pop_front(Cur, c) = Throw(Cur, "container_is_empty")
           /\ pop_back(Cur, c) = Throw(Cur, "container_is_empty")

\* the same on the states in which every size counter matches its chain
C6_WrappersMatchWhenSized ==
  C2_SizeEqualsCount => C6_WrappersMatch

\* the outcomes of one mutating operation applied to container c alone, with
\* x the iterator at hand
MutationsOf(h, c, x) ==
  {pop_back(h, c), pop_front(h, c), clear(h, c), sort(h, c), reverse(h, c),
   unique(h, c), erase(h, c, x)}
  \cup (IF FreeNodes(h) = {} THEN {}
        ELSE UNION {{push_back(h, c, v), push_front(h, c, v), insert(h, c, x, v)} :
                    v \in Vals})

\* the iterators at hand after the heap became h: the one kept, if it was not
\* invalidated, and those the container hands out
IteratorsOf(h, c) == {Drop(h, iter), begin(h, c), end(h, c)}

\* b is a copy of a in h, made from the heap h0: same values as a had, no
\* shared node, and one operation on either leaves the other as it is
IsolatedCopy(h0, h, b, a) ==
  /\ ValuesOf(h, b) = ValuesOf(h0, a)
  /\ ValuesOf(h, a) = ValuesOf(h0, a)
  /\ h.size[b] = Len(ValuesOf(h0, a))
  /\ Range(ChainOf(h, b)) \cap Range(ChainOf(h, a)) = {}
  /\ \A x \in IteratorsOf(h, a) : \A g \in MutationsOf(h, a, x) :
        ~g.fault => ValuesOf(g, b) = ValuesOf(h, b) /\ g.size[b] = h.size[b]
  /\ \A x \in IteratorsOf(h, b) : \A g \in MutationsOf(h, b, x) :
        ~g.fault => ValuesOf(g, a) = ValuesOf(h, a) /\ g.size[a] = h.size[a]

\* C7: a container made from another by copy-construction or copy-assignment
\* holds the same values in the same order, shares no node with it, and a
\* later mutation of either leaves the other unchanged
C7_CopyIsolated ==
  \A b \in Lists : \A a \in LiveLists \ {b} :
    (~fault /\ Room(Len(Chain(a)))) =>
      IF live[b]
      THEN LET h == assign(Cur, b, a) IN ~Bad(h) => IsolatedCopy(Cur, h, b, a)
      ELSE LET h == copy_construct(Cur, b, a) IN ~Bad(h) => IsolatedCopy(Cur, h, b, a)

\* the same for copy-construction alone
C7_CopyConstructIsolated ==
  \A b \in Lists \ LiveLists : \A a \in LiveLists \ {b} :
    (~fault /\ Room(Len(Chain(a)))) =>
      LET h == copy_construct(Cur, b, a) IN ~Bad(h) => IsolatedCopy(Cur, h, b, a)

\* ------------------------------------------------------- merge and sort
Ascending(q) == \A k \in 1..(Len(q) - 1) : ~(q[k + 1] < q[k])
Restrict(q, S) == SelectSeq(q, LAMBDA n : n \in S)
Count(q, v) == Cardinality({k \in 1..Len(q) : q[k] = v})
Permutation(p, q) == Len(p) = Len(q) /\ \A v \in Vals : Count(p, v) = Count(q, v)

\* C8: when both containers are in ascending order, c.merge(o) leaves c with
\* all the nodes of both in ascending order, the nodes of each origin in their
\* former relative order, and among equal values those of c ahead of those
\* of o
C8_MergeStable ==
  \A c \in LiveLists : \A o \in LiveLists \ {c} :
    (~fault /\ Ascending(Values(c)) /\ Ascending(Values(o))) =>
      LET h == merge(Cur, c, o)
          r == ChainOf(h, c)
          mine == Range(Chain(c))
          theirs == Range(Chain(o))
      IN /\ ~Bad(h)
         /\ Len(r) = Len(Chain(c)) + Len(Chain(o))
         /\ Range(r) = mine \cup theirs
         /\ \A n \in Range(r) : h.data[n] = data[n]
         /\ Ascending(ValuesOf(h, c))
         /\ Restrict(r, mine) = Chain(c)
         /\ Restrict(r, theirs) = Chain(o)
         /\ \A i \in 1..Len(r) : \A j \in 1..Len(r) :
               (i < j /\ h.data[r[i]] = h.data[r[j]]) =>
                  ~(r[i] \in theirs /\ r[j] \in mine)

C8_Witness ==
  \E c \in LiveLists : \E o \in LiveLists \ {c} :
    /\ ~fault /\ Values(c) = <<1, 2>> /\ Values(o) = <<1>>
    /\ ChainOf(merge(Cur, c, o), c) = <<Chain(c)[1], Chain(o)[1], Chain(c)[2]>>

\* C9: c.merge(o) on any two distinct containers allocates, frees and
\* rewrites no node; c's chain holds the nodes of both and c.size() is the sum
\* of the former sizes; o has size 0 with its sentinels linked to each other
\* and stays usable: a push_back on o gives a one-element o and leaves c alone
C9_MergeTransfers ==
  \A c \in LiveLists : \A o \in LiveLists \ {c} :
    ~fault =>
      LET h == merge(Cur, c, o) IN
      /\ ~Bad(h)
      /\ h.alloc = alloc /\ h.data = data
      /\ Range(ChainOf(h, c)) = Range(Chain(c)) \cup Range(Chain(o))
      /\ h.size[c] = list_size[c] + list_size[o]
      /\ h.size[o] = 0
      /\ h.next[h.head[o]] = h.tail[o] /\ h.prev[h.tail[o]] = h.head[o]
      /\ h.head = head /\ h.tail = tail
      /\ FreeNodes(h) # {} =>
           \A v \in Vals :
             LET g == push_back(h, o, v) IN
             /\ ~Bad(g)
             /\ ValuesOf(g, o) = <<v>> /\ g.size[o] = 1
             /\ ChainOf(g, c) = ChainOf(h, c) /\ ValuesOf(g, c) = ValuesOf(h, c)
             /\ g.size[c] = h.size[c]

\* the same on the states in which every size counter matches its chain
C9_MergeTransfersWhenSized ==
  C2_SizeEqualsCount => C9_MergeTransfers

\* C10: sort() leaves the container with the same nodes in the same chain
\* order and the same size, holding a permutation of the former values in
\* ascending order; on a container already in order the values do not change
C10_SortSorts ==
  \A c \in LiveLists :
    (~fault /\ ~sort(Cur, c).fault) =>
      LET h == sort(Cur, c) IN
      /\ h.exc = "none"
      /\ ChainOf(h, c) = Chain(c)
      /\ h.alloc = alloc /\ h.size = list_size
      /\ h.prev = prev /\ h.next = next
      /\ Permutation(ValuesOf(h, c), Values(c))
      /\ Ascending(ValuesOf(h, c))
      /\ Ascending(Values(c)) => ValuesOf(h, c) = Values(c)

\* the same on the states in which every size counter matches its chain
C10_SortSortsWhenSized ==
  C2_SizeEqualsCount => C10_SortSorts

\* -------------------------------------------------------------- reverse
Rev(q) == [k \in 1..Len(q) |-> q[Len(q) + 1 - k]]

\* what reverse() is said to do to container c of the heap h0, h being the
\* heap it leaves and h2 the heap a second reverse() leaves
Reversed(h0, h, h2, c) ==
  LET before == ChainOf(h0, c)
      after == ChainOf(h, c)
      again == ChainOf(h2, c)
      values(g, q) == [k \in 1..Len(q) |-> g.data[q[k]]]
  IN /\ ~Bad(h) /\ ~Bad(h2)
     /\ values(h, after) = Rev(values(h0, before))
     /\ h.size = h0.size /\ h.alloc = h0.alloc /\ h.data = h0.data
     /\ Range(after) = Range(before)
     /\ h.head[c] = h0.tail[c] /\ h.tail[c] = h0.head[c]
     /\ values(h2, again) = values(h0, before)
     /\ again = before /\ h2.data = h0.data

\* C11 as stated: for any container, reverse() reverses the iterated values,
\* keeps the size, the nodes and their values, exchanges the roles of the two
\* sentinels, and twice restores the original order and values
C11_ReverseAlways ==
  \A c \in LiveLists :
    ~fault => LET h == reverse(Cur, c) IN Reversed(Cur, h, reverse(h, c), c)

\* C11 as amended: reverse() changes nothing when size() <= 1 (the sentinels
\* keep their roles); when size() >= 2 it reverses the iterated values, keeps
\* the size, the nodes and their values and exchanges the roles of the two
\* sentinels; in both cases a second reverse() restores every link
C11_ReverseBySize ==
  \A c \in LiveLists :
    ~fault =>
      LET h == reverse(Cur, c)
          h2 == reverse(h, c)
      IN /\ IF size_le_1(Cur, c) THEN h = Cur ELSE Reversed(Cur, h, h2, c)
         /\ h2.next = next /\ h2.prev = prev /\ h2.head = head /\ h2.tail = tail

C11_Witness ==
  /\ ~fault
  /\ \E c \in LiveLists :
       /\ Values(c) = <<1, 2, 2>> /\ list_size[c] = 3
       /\ ValuesOf(reverse(Cur, c), c) = <<2, 2, 1>>
       /\ reverse(Cur, c).head[c] = tail[c]

\* --------------------------------------------------------------- unique
\* the elements of q that do not repeat the element right before them
RECURSIVE FirstOfRuns(_)
FirstOfRuns(q) ==
  IF Len(q) <= 1 THEN q
  ELSE LET r == FirstOfRuns(SubSeq(q, 1, Len(q) - 1)) IN
       IF q[Len(q)] = q[Len(q) - 1] THEN r ELSE Append(r, q[Len(q)])

NoAdjacentEqual(q) == \A k \in 1..(Len(q) - 1) : q[k] # q[k + 1]

\* what unique() is said to do to container c of the heap h0, h being the
\* heap it leaves: the nodes kept are the first of each run, with their values
Deduplicated(h0, h, c) ==
  /\ ~Bad(h)
  /\ ValuesOf(h, c) = FirstOfRuns(ValuesOf(h0, c))
  /\ NoAdjacentEqual(ValuesOf(h, c))
  /\ LET old == ChainOf(h0, c) IN
     ChainOf(h, c) = SelectSeq(old, LAMBDA n : n = old[1] \/ h0.data[n] # h0.data[h0.prev[n]])
  /\ h.size[c] = Len(ChainOf(h, c))

\* C12: unique() keeps the first element of every maximal run of consecutive
\* equal elements, in order, leaves no two adjacent equal elements, keeps
\* non-adjacent duplicates, and size() is the number of kept elements
C12_UniqueKeepsFirstOfRuns ==
  \A c \in LiveLists : ~fault => Deduplicated(Cur, unique(Cur, c), c)

\* the same in the states where the size counter of c matches its chain
C12_UniqueWhenSized ==
  \A c \in LiveLists :
    (~fault /\ list_size[c] = Len(Chain(c))) => Deduplicated(Cur, unique(Cur, c), c)

\* ------------------------------------------------------ error handling
\* every value an iterator argument can have
AnyIterator == {Unset} \cup {It(n, k) : n \in Nodes \cup {NULL}, k \in Lists}

Raises(h, e) == ~h.fault /\ h.exc = e

\* C13: on a container of size 0, front(), back(), pop_front() and
\* pop_back() raise empty-container, and so does erase(pos) for every pos:
\* unset, the container's own end(), an iterator of another container
C13_EmptyRaises ==
  \A c \in LiveLists :
    (~fault /\ list_size[c] = 0) =>
      /\ Raises(front(Cur, c), "container_is_empty")
      /\ Raises(back(Cur, c), "container_is_empty")
      /\ Raises(pop_front(Cur, c), "container_is_empty")
      /\ Raises(pop_back(Cur, c), "container_is_empty")
      /\ \A pos \in AnyIterator : Raises(erase(Cur, c, pos), "container_is_empty")

C13_Witness ==
  /\ ~fault
  /\ \E c \in LiveLists :
       /\ list_size[c] = 0 /\ Len(Chain(c)) = 0 /\ Len(Chain(Other(c))) = 2
       /\ iter.container = Other(c) /\ iter.current \in Range(Chain(Other(c)))
       /\ Raises(erase(Cur, c, iter), "container_is_empty")
       /\ Raises(erase(Cur, c, end(Cur, c)), "container_is_empty")
       /\ Raises(erase(Cur, c, Unset), "container_is_empty")
       /\ Raises(pop_back(Cur, c), "container_is_empty")

\* the tests of insert(pos, v) and of erase(pos) on a non-empty container
RaiseWhenForeign(c) ==
  \A pos \in AnyIterator :
    /\ pos.container # c =>
         \A v \in Vals : Raises(insert(Cur, c, pos, v), "invalid_iterator")
    /\ (~empty(Cur, c) /\ (pos.container # c \/ pos.current = tail[c])) =>
         Raises(erase(Cur, c, pos), "invalid_iterator")

\* the iterators at hand: the one kept from earlier calls and those the
\* containers hand out now
IteratorsAtHand == {iter} \cup {begin(Cur, k) : k \in LiveLists} \cup {end(Cur, k) : k \in LiveLists}

\* C14: insert(pos, v) raises invalid-iterator when pos references another
\* container or none, erase(pos) on a non-empty container raises it when pos
\* references another container or equals end(), and in every other case
\* with an iterator made by begin(), end(), insert or erase the call succeeds
\* without touching a null link
C14_InsertEraseChecks ==
  \A c \in LiveLists :
    ~fault =>
      /\ RaiseWhenForeign(c)
      /\ \A pos \in IteratorsAtHand :
           /\ (pos.container = c /\ Room(1)) => \A v \in Vals : ~Bad(insert(Cur, c, pos, v))
           /\ (~empty(Cur, c) /\ pos.container = c /\ pos.current # tail[c]) =>
                ~Bad(erase(Cur, c, pos))

\* the raising half alone
C14_RaiseWhenForeign ==
  \A c \in LiveLists : ~fault => RaiseWhenForeign(c)

\* the call left every link, size, value and allocation as it was
SameState(h) ==
  /\ h.prev = prev /\ h.next = next /\ h.data = data /\ h.alloc = alloc
  /\ h.head = head /\ h.tail = tail /\ h.size = list_size /\ h.live = live

Failed(h) == ~h.fault /\ h.exc \in {"invalid_iterator", "container_is_empty"}

\* the outcomes of the calls on container c that take no iterator
PlainCalls(c) ==
  {front(Cur, c), back(Cur, c), pop_front(Cur, c), pop_back(Cur, c)}

\* the outcomes of insert and erase on container c with the iterator pos
PositionalCalls(c, pos) ==
  {erase(Cur, c, pos)}
  \cup (IF pos.container # c \/ Room(1)
        THEN {insert(Cur, c, pos, v) : v \in Vals} ELSE {})

\* C15: a call of front, back, pop_front, pop_back, insert, erase, ++, -- or
\* a dereference that raises invalid-iterator or empty-container leaves the
\* links, sizes and values of all containers, the set of allocated nodes and
\* the position of the iterator involved as they were
C15_FailedCallsChangeNothing ==
  ~fault =>
    /\ \A c \in LiveLists : \A h \in PlainCalls(c) : Failed(h) => SameState(h)
    /\ \A c \in LiveLists : \A pos \in IteratorsAtHand \cup {Unset} :
         \A h \in PositionalCalls(c, pos) : Failed(h) => SameState(h)
    /\ \A pos \in IteratorsAtHand \cup {Unset} :
         /\ Failed(star(Cur, pos)) => SameState(star(Cur, pos))
         /\ \A h \in {increment(Cur, pos), decrement(Cur, pos)} :
              Failed(h) => SameState(h) /\ h.ret = pos

C15_Witness ==
  /\ ~fault
  /\ \E c \in LiveLists :
       /\ Len(Chain(c)) = 2 /\ list_size[c] = 2 /\ list_size[Other(c)] = 0
       /\ iter = end(Cur, c)
       /\ Failed(increment(Cur, iter)) /\ Failed(star(Cur, iter))
       /\ Failed(erase(Cur, c, iter)) /\ SameState(erase(Cur, c, iter))
       /\ Failed(insert(Cur, Other(c), iter, 1))
       /\ Failed(pop_back(Cur, Other(c))) /\ SameState(pop_back(Cur, Other(c)))
       /\ Failed(decrement(Cur, begin(Cur, c)))

\* ------------------------------------------------------- ++ and --
\* the positions of container c in iteration order, end() last
Positions(c) == Append(Chain(c), tail[c])

\* the outcome h of ++ on x: a raise when must_raise, a move to target
\* otherwise
MovesOrRaises(h, x, must_raise, target) ==
  IF must_raise THEN Raises(h, "invalid_iterator") /\ h.ret = x
  ELSE ~Bad(h) /\ h.ret = It(target, x.container) /\ SameState(h)

\* C16: ++ (pre and post) raises invalid-iterator when the cursor is unset
\* or equals the container's end(), -- when it is unset or equals the
\* container's begin(); otherwise ++ moves to the next position and -- to
\* the previous one, the post-forms returning the old position
C16_IncDecMoveOrRaise ==
  ~fault =>
    /\ \A x \in {iter, Unset} :
         LET up == x.current = NULL \/ x = end(Cur, x.container)
             down == x.current = NULL \/ x = begin(Cur, x.container)
         IN /\ MovesOrRaises(increment(Cur, x), x, up, next[x.current])
            /\ MovesOrRaises(post_increment(Cur, x), x, up, next[x.current])
            /\ MovesOrRaises(decrement(Cur, x), x, down, prev[x.current])
            /\ MovesOrRaises(post_decrement(Cur, x), x, down, prev[x.current])
            /\ ~up => post_increment(Cur, x).tmp = x
            /\ ~down => post_decrement(Cur, x).tmp = x
    /\ \A c \in LiveLists : \A k \in 1..Len(Positions(c)) :
         LET p == Positions(c)
             x == It(p[k], c)
         IN /\ MovesOrRaises(increment(Cur, x), x, k = Len(p),
                             IF k = Len(p) THEN NULL ELSE p[k + 1])
            /\ MovesOrRaises(post_increment(Cur, x), x, k = Len(p),
                             IF k = Len(p) THEN NULL ELSE p[k + 1])
            /\ MovesOrRaises(decrement(Cur, x), x, k = 1,
                             IF k = 1 THEN NULL ELSE p[k - 1])
            /\ MovesOrRaises(post_decrement(Cur, x), x, k = 1,
                             IF k = 1 THEN NULL ELSE p[k - 1])

C16_Witness ==
  /\ ~fault
  /\ \E c \in LiveLists :
       /\ Len(Chain(c)) = 2 /\ iter = It(Chain(c)[2], c)
       /\ increment(Cur, iter).ret = end(Cur, c)
       /\ decrement(Cur, iter).ret = begin(Cur, c)
       /\ post_decrement(Cur, iter).tmp = iter
       /\ Raises(increment(Cur, end(Cur, c)), "invalid_iterator")
       /\ Raises(decrement(Cur, begin(Cur, c)), "invalid_iterator")
       /\ empty(Cur, Other(c))
       /\ Raises(decrement(Cur, end(Cur, Other(c))), "invalid_iterator")

\* ------------------------------------------------------------ dereference
\* C17: *it and it-> raise invalid-iterator whenever the iterator is unset or
\* its cursor rests on a head or tail sentinel, in every state reached by
\* moving iterators made by begin(), end(), insert and erase and by applying
\* container operations; in particular *end() raises
C17_SentinelDerefRaises ==
  ~fault =>
    /\ \A x \in {iter, Unset} :
         (x.current = NULL \/ x.current \in Sentinels) =>
            Raises(star(Cur, x), "invalid_iterator")
    /\ \A c \in LiveLists : Raises(star(Cur, end(Cur, c)), "invalid_iterator")

\* the same for the cursors that rest on a sentinel of their own container
C17_OwnSentinelDerefRaises ==
  ~fault =>
    /\ \A x \in {iter, Unset} :
         (x.current = NULL \/ x.current \in {head[x.container], tail[x.container]}) =>
            Raises(star(Cur, x), "invalid_iterator")
    /\ \A c \in LiveLists : Raises(star(Cur, end(Cur, c)), "invalid_iterator")

\* ------------------------------------------------------------- ownership
\* in the heap h the allocated value nodes are exactly the nodes linked in
\* the chains of the live containers, each in one chain only
ExactOwnership(h) ==
  /\ \A c \in Lists : \A o \in Lists \ {c} :
        Range(LiveChain(h, c)) \cap Range(LiveChain(h, o)) = {}
  /\ \A c \in Lists : \A j, k \in 1..Len(LiveChain(h, c)) :
        LiveChain(h, c)[j] = LiveChain(h, c)[k] => j = k
  /\ h.alloc = UNION {Range(LiveChain(h, c)) : c \in Lists}

\* ~list on container c of the heap h0 left h: the value nodes of c and both
\* of its sentinels are released, the other container keeps its own
TornDown(h0, h, c) ==
  /\ ~Bad(h) /\ ~h.live[c]
  /\ h.alloc = h0.alloc \ Range(ChainOf(h0, c))
  /\ \A s \in {SentA(c), SentB(c)} : ~LiveNode(h, s)
  /\ ExactOwnership(h)

\* C18: in every reachable state the allocated value nodes are exactly the
\* nodes linked in the chains of the live containers, without a leaked, a
\* shared or a freed node; merge frees none, and destroying a container frees
\* its remaining value nodes and both of its sentinels
C18_ExactOwnership ==
  ~fault =>
    /\ ExactOwnership(Cur)
    /\ \A c \in LiveLists : \A o \in LiveLists :
         LET h == merge(Cur, c, o) IN ~Bad(h) => h.alloc = alloc
    /\ \A c \in LiveLists : TornDown(Cur, destroy(Cur, c), c)

\* the part of C18 about the states themselves and about merge
C18_OwnershipWhileAlive ==
  ~fault =>
    /\ ExactOwnership(Cur)
    /\ \A c \in LiveLists : \A o \in LiveLists :
         LET h == merge(Cur, c, o) IN ~Bad(h) => h.alloc = alloc

\* the whole of C18 in the states where the size counters match the chains
C18_ExactOwnershipWhenSized ==
  (~fault /\ \A c \in LiveLists : list_size[c] = Len(Chain(c))) =>
    /\ ExactOwnership(Cur)
    /\ \A c \in LiveLists : TornDown(Cur, destroy(Cur, c), c)

\* ---------------------------------------------------------------- cursors
\* C19: an iterator made by begin(), end(), insert or erase and moved by
\* successful ++/-- rests, while its node is not erased, on a value node of
\* the chain of the container it references or on that container's tail
\* sentinel: never on a head sentinel, never on null, never on a node of
\* another container, whatever public operations the containers undergo
C19_CursorInOwnChain ==
  (~fault /\ iter # Unset) =>
    iter.current \in Range(Positions(iter.container))

\* ------------------------------------------------------------- stability
\* the outcomes of one call of push, pop, insert, erase, unique, reverse or
\* merge on container c, insert and erase taking an iterator at hand
RelinkingCalls(c) ==
  {pop_back(Cur, c), pop_front(Cur, c), unique(Cur, c), reverse(Cur, c),
   merge(Cur, c, Other(c))}
  \cup (IF Room(1) THEN {push_back(Cur, c, v) : v \in Vals}
                        \cup {push_front(Cur, c, v) : v \in Vals}
        ELSE {})
  \cup UNION {PositionalCalls(c, pos) : pos \in IteratorsAtHand}

\* the heap as the caller finds it after the call, a raised exception caught
AfterCall(h) == [h EXCEPT !.exc = "none"]

\* C20: an iterator resting on a value node keeps dereferencing to that
\* node's value across push, pop, insert, erase and unique calls that do not
\* erase the node, across reverse() and across merge in either direction,
\* also when merge moves the node into the other container
C20_IteratorStable ==
  (~fault /\ iter.current \in alloc) =>
    \A c \in LiveLists : \A h \in RelinkingCalls(c) :
      (~h.fault /\ iter.current \in h.alloc) =>
         LET g == star(AfterCall(h), iter) IN
         /\ ~Bad(g)
         /\ g.val = data[iter.current]
         /\ g.val = star(Cur, iter).val

C20_Witness ==
  /\ ~fault
  /\ \E c \in LiveLists :
       /\ Values(c) = <<2, 1>> /\ list_size[c] = 2
       /\ iter = It(Chain(c)[1], c)
       /\ LET h == merge(Cur, Other(c), c) IN
          /\ ~Bad(h) /\ iter.current \in Range(ChainOf(h, Other(c)))
          /\ star(h, iter).val = 2
       /\ star(reverse(Cur, c), iter).val = 2
       /\ star(sort(Cur, c), iter).val = 1

====
